---------------------------- MODULE Spec2Model ----------------------------
(* CHIP-8 interpreter core (src/src/chip8.rs) driven by the host systems  *)
(* of src/src/main.rs.  One variable per field of struct Chip8, one       *)
(* action per public operation, one operator per opcode-family handler.   *)
EXTENDS Integers, Sequences, FiniteSets, TLC

VARIABLES memory, registers, i_register, pc, delay_timer, sound_timer,
          stack, display, keys, waiting_key_opcode,
          panic,      \* "none", or the panic that aborted the process
          last        \* record of the most recent operation (history)

chip8 == <<memory, registers, i_register, pc, delay_timer, sound_timer,
           stack, display, keys, waiting_key_opcode>>
vars == <<memory, registers, i_register, pc, delay_timer, sound_timer,
          stack, display, keys, waiting_key_opcode, panic, last>>

(* ------------------------------------------------------------------ *)
(* Program constants                                                    *)
(* ------------------------------------------------------------------ *)
MemSize == 4096
NumRegs == 16
NumKeys == 16
DisplayWidth == 64
DisplayHeight == 32
StartAddress == 512
Byte == 256
Word == 65536

Addrs == 0 .. (MemSize - 1)
Regs == 0 .. (NumRegs - 1)
Rows == 0 .. (DisplayHeight - 1)
Cols == 0 .. (DisplayWidth - 1)

(* ------------------------------------------------------------------ *)
(* Bounds of the model                                                  *)
(* ------------------------------------------------------------------ *)
MaxStack == 3     \* deepest call nesting explored (Vec<u16> is unbounded)

(* ------------------------------------------------------------------ *)
(* Bit arithmetic on u8 / u16 values                                    *)
(* ------------------------------------------------------------------ *)
RECURSIVE BitOp(_, _, _, _)
BitOp(f, a, b, n) ==
    IF n = 0 THEN 0
    ELSE f[a % 2][b % 2] + 2 * BitOp(f, a \div 2, b \div 2, n - 1)

AndBit == [p \in 0..1 |-> [q \in 0..1 |-> IF p = 1 /\ q = 1 THEN 1 ELSE 0]]
OrBit  == [p \in 0..1 |-> [q \in 0..1 |-> IF p = 1 \/ q = 1 THEN 1 ELSE 0]]
XorBit == [p \in 0..1 |-> [q \in 0..1 |-> IF p # q THEN 1 ELSE 0]]
BitAnd(a, b) == BitOp(AndBit, a, b, 8)
BitOr(a, b)  == BitOp(OrBit, a, b, 8)
BitXor(a, b) == BitOp(XorBit, a, b, 8)

\* (byte >> (7 - col)) & 1
SpriteBit(byte, col) == (byte \div (2 ^ (7 - col))) % 2

(* Operand fields of an opcode *)
OpX(opcode)   == (opcode \div 256) % 16     \* (opcode & 0x0F00) >> 8
OpY(opcode)   == (opcode \div 16) % 16      \* (opcode & 0x00F0) >> 4
OpN(opcode)   == opcode % 16                \* opcode & 0x000F
OpNN(opcode)  == opcode % 256               \* opcode & 0x00FF
OpNNN(opcode) == opcode % 4096              \* opcode & 0x0FFF
Family(opcode) == opcode \div 4096          \* (opcode & 0xF000) >> 12

BlankDisplay == [r \in Rows |-> [c \in Cols |-> 0]]
NoKeys == [k \in 0 .. (NumKeys - 1) |-> FALSE]
ZeroRegs == [r \in Regs |-> 0]
ZeroMemory == [a \in Addrs |-> 0]


(* ------------------------------------------------------------------ *)
(* History kept for stating properties (not program state)              *)
(* ------------------------------------------------------------------ *)
\* One executed instruction: the opcode get_opcode returned, the pc the
\* call started at and the pc get_opcode left, whether the pending get-key
\* opcode was reused, and the registers / blank-display test as they were
\* before the call (for FX0A, the pressed keys too).
NoExec == [opcode |-> 0, addr |-> 0, pcf |-> 0, reused |-> FALSE,
           regs |-> ZeroRegs, keys |-> {}, blank |-> TRUE]

\* Timer history: the value t last written into a timer (base) and the
\* number k of update_timers calls since, kept as n = min(k, t), so that
\* max(0, t - k) = t - n.
FreshTimer == [base |-> 0, n |-> 0]

\* op: the operation that ran last, update_timers and key writes aside;
\* exec, prev: the last two instructions executed; nexec: execute_opcode
\* calls since the last load / reset / restart (counted up to 2); calls:
\* the addresses of the 2NNN instructions executed and not yet returned
\* from; rom: the image of the last load_rom; was: what the machine was
\* in the middle of everything (waiting for a key inside a subroutine with
\* pixels lit) when it was last reset, restarted or loaded.
FreshLast(op) ==
    [op |-> op, exec |-> NoExec, prev |-> NoExec, nexec |-> 0,
     calls |-> << >>, dt |-> FreshTimer, st |-> FreshTimer,
     rom |-> << >>, loaded |-> FALSE,
     was |-> (waiting_key_opcode # 0 /\ Len(stack) > 0
                 /\ display # BlankDisplay)]

Min(a, b) == IF a < b THEN a ELSE b
Max0(a) == IF a < 0 THEN 0 ELSE a

(* ------------------------------------------------------------------ *)
(* Chip8::default                                                       *)
(* ------------------------------------------------------------------ *)
Init ==
    /\ memory = ZeroMemory
    /\ registers = ZeroRegs
    /\ i_register = 0
    /\ pc = StartAddress
    /\ delay_timer = 0
    /\ sound_timer = 0
    /\ stack = << >>
    /\ display = BlankDisplay
    /\ keys = NoKeys
    /\ waiting_key_opcode = 0
    /\ panic = "none"
    /\ last = FreshLast("default")

(* ------------------------------------------------------------------ *)
(* Chip8::update_timers                                                 *)
(* ------------------------------------------------------------------ *)
\* (mutation: an unguarded wrapping decrement)
TimerTickWrapping(t) == (t - 1) % Byte

TimerTick(t) == IF t > 0 THEN t - 1 ELSE t

Ticked(h) == [h EXCEPT !.n = Min(h.n + 1, h.base)]

UpdateTimers ==
    /\ panic = "none"
    /\ delay_timer' = TimerTick(delay_timer)
    /\ sound_timer' = TimerTick(sound_timer)
    /\ last' = [last EXCEPT !.dt = Ticked(last.dt), !.st = Ticked(last.st)]
    /\ UNCHANGED <<memory, registers, i_register, pc, stack, display, keys,
                   waiting_key_opcode, panic>>

(* ------------------------------------------------------------------ *)
(* Chip8::restart, Chip8::reset                                         *)
(* ------------------------------------------------------------------ *)
\* The assignments restart() and reset() share (everything but memory);
\* k is what self.keys holds when the caller is done with it.
RestartFields(k) ==
    /\ registers' = ZeroRegs
    /\ i_register' = 0
    /\ pc' = StartAddress
    /\ stack' = << >>
    /\ display' = BlankDisplay
    /\ keys' = k
    /\ delay_timer' = 0
    /\ sound_timer' = 0
    /\ waiting_key_opcode' = 0

\* (mutation: restart() written as reset(), zeroing memory too)
RestartZeroingMemory ==
    /\ panic = "none"
    /\ memory' = ZeroMemory
    /\ RestartFields(NoKeys)
    /\ last' = FreshLast("restart")
    /\ UNCHANGED panic

Restart ==
    /\ panic = "none"
    /\ RestartFields(NoKeys)
    /\ last' = FreshLast("restart")
    /\ UNCHANGED <<memory, panic>>

Reset ==
    /\ panic = "none"
    /\ memory' = ZeroMemory
    /\ RestartFields(NoKeys)
    /\ last' = FreshLast("reset")
    /\ UNCHANGED panic

(* ------------------------------------------------------------------ *)
(* Chip8::load_rom (called by load_from_file with start_address 0x200)  *)
(* ------------------------------------------------------------------ *)
\* (mutation: the copy loop runs without the reset() before it)
LoadedOverOldMemory(rom, start_address) ==
    [a \in Addrs |->
        IF a >= start_address /\ a < start_address + Len(rom)
        THEN rom[a - start_address + 1] ELSE memory[a]]

\* memory after reset() and the copy loop
LoadedMemory(rom, start_address) ==
    LET end == start_address + Len(rom) IN
    [a \in Addrs |->
        IF a >= start_address /\ a < end
        THEN rom[a - start_address + 1] ELSE 0]

RomFits(rom, start_address) == ~(start_address + Len(rom) > MemSize)

load_rom(rom, start_address) ==
    /\ RestartFields(NoKeys)
    /\ IF RomFits(rom, start_address)
       THEN /\ memory' = LoadedMemory(rom, start_address)
            /\ panic' = "none"
       ELSE /\ memory' = ZeroMemory
            /\ panic' = "RomTooLarge"

(* ------------------------------------------------------------------ *)
(* Chip8::get_opcode                                                    *)
(* ------------------------------------------------------------------ *)
\* the bounds test at the top of get_opcode
FetchOutOfBounds == pc + 1 >= MemSize

\* get_opcode returns the pending get-key opcode instead of reading memory
ReusesPending == waiting_key_opcode > 0

\* the big-endian word at memory[at], memory[at + 1]
WordAt(mem, at) == mem[at] * 256 + mem[at + 1]

\* (mutation: pc advances on the reuse of the pending opcode too)
FetchedPcAlwaysAdvancing == pc + 2

\* the value get_opcode returns and the pc it leaves
FetchedOpcode == IF ReusesPending THEN waiting_key_opcode ELSE WordAt(memory, pc)
FetchedPc == IF ReusesPending THEN pc ELSE pc + 2

(* ------------------------------------------------------------------ *)
(* Opcode-family handlers.  p is self.pc as get_opcode left it.         *)
(* ------------------------------------------------------------------ *)
UnknownOpcode(p) ==
    /\ pc' = p
    /\ panic' = "UnknownOpcode"
    /\ UNCHANGED <<memory, registers, i_register, delay_timer, sound_timer,
                   stack, display, keys, waiting_key_opcode>>

handle_0xxx(opcode, p) ==
    CASE opcode = 224 ->                                  \* 0x00E0
           /\ display' = BlankDisplay
           /\ pc' = p
           /\ UNCHANGED <<memory, registers, i_register, delay_timer,
                          sound_timer, stack, keys, waiting_key_opcode, panic>>
      [] opcode = 238 ->                                  \* 0x00EE
           IF stack = << >>
           THEN /\ pc' = p
                /\ panic' = "StackUnderflow"
                /\ UNCHANGED <<memory, registers, i_register, delay_timer,
                               sound_timer, stack, display, keys,
                               waiting_key_opcode>>
           ELSE /\ pc' = stack[Len(stack)]
                /\ stack' = SubSeq(stack, 1, Len(stack) - 1)
                /\ UNCHANGED <<memory, registers, i_register, delay_timer,
                               sound_timer, display, keys, waiting_key_opcode,
                               panic>>
      [] OTHER -> UnknownOpcode(p)

handle_1xxx(opcode, p) ==
    /\ pc' = OpNNN(opcode)
    /\ UNCHANGED <<memory, registers, i_register, delay_timer, sound_timer,
                   stack, display, keys, waiting_key_opcode, panic>>

\* (mutation: the call pushes its own address, not the one after it)
handle_2xxx_PushingCallSite(opcode, p) ==
    /\ stack' = Append(stack, p - 2)
    /\ pc' = OpNNN(opcode)
    /\ UNCHANGED <<memory, registers, i_register, delay_timer, sound_timer,
                   display, keys, waiting_key_opcode, panic>>

handle_2xxx(opcode, p) ==
    /\ stack' = Append(stack, p)
    /\ pc' = OpNNN(opcode)
    /\ UNCHANGED <<memory, registers, i_register, delay_timer, sound_timer,
                   display, keys, waiting_key_opcode, panic>>

\* the skip instructions: pc += 2 when the condition holds
Skip(cond, p) ==
    /\ pc' = IF cond THEN p + 2 ELSE p
    /\ UNCHANGED <<memory, registers, i_register, delay_timer, sound_timer,
                   stack, display, keys, waiting_key_opcode, panic>>

handle_3xxx(opcode, p) == Skip(registers[OpX(opcode)] = OpNN(opcode), p)

handle_4xxx(opcode, p) == Skip(registers[OpX(opcode)] # OpNN(opcode), p)

handle_5xxx(opcode, p) == Skip(registers[OpX(opcode)] = registers[OpY(opcode)], p)

\* handlers that only write registers
SetRegisters(regs, p) ==
    /\ registers' = regs
    /\ pc' = p
    /\ UNCHANGED <<memory, i_register, delay_timer, sound_timer, stack,
                   display, keys, waiting_key_opcode, panic>>

handle_6xxx(opcode, p) ==
    SetRegisters([registers EXCEPT ![OpX(opcode)] = OpNN(opcode)], p)

handle_7xxx(opcode, p) ==
    SetRegisters([registers EXCEPT ![OpX(opcode)] = (@ + OpNN(opcode)) % Byte], p)

\* (mutation: the carry is reported from a sum of 0xFF on)
AddCarryingEarly(x, vx, vy) ==
    [[registers EXCEPT ![x] = (vx + vy) % Byte]
        EXCEPT ![15] = IF vx + vy >= Byte - 1 THEN 1 ELSE 0]

\* 0x8004: overflowing_add, result written first, flag second
AddWithCarry(x, vx, vy) ==
    [[registers EXCEPT ![x] = (vx + vy) % Byte]
        EXCEPT ![15] = IF vx + vy >= Byte THEN 1 ELSE 0]

\* (mutation: the flag is 1 on equal operands too)
SubFlaggingEqual(x, vx, vy) ==
    [[registers EXCEPT ![15] = IF vx >= vy THEN 1 ELSE 0]
        EXCEPT ![x] = (vx - vy) % Byte]

\* 0x8005: flag written first, wrapping_sub result second
SubWithBorrow(x, vx, vy) ==
    [[registers EXCEPT ![15] = IF vx > vy THEN 1 ELSE 0]
        EXCEPT ![x] = (vx - vy) % Byte]

\* (mutation: the flag is 0 on equal operands too)
ReverseSubStrict(x, vx, vy) ==
    [[registers EXCEPT ![15] = IF vy > vx THEN 1 ELSE 0]
        EXCEPT ![x] = (vy - vx) % Byte]

\* 0x8007: vy.overflowing_sub(vx), flag written first, result second
ReverseSub(x, vx, vy) ==
    [[registers EXCEPT ![15] = IF vy < vx THEN 0 ELSE 1]
        EXCEPT ![x] = (vy - vx) % Byte]

\* registers after an 8XYN instruction (the match arms of handle_8xxx, the
\* writes in the order the code makes them)
Alu(opcode) ==
    LET x == OpX(opcode)
        vx == registers[x]
        vy == registers[OpY(opcode)]
        n == OpN(opcode)
    IN  CASE n = 0 -> [registers EXCEPT ![x] = vy]
          [] n = 1 -> [registers EXCEPT ![x] = BitOr(@, vy)]
          [] n = 2 -> [registers EXCEPT ![x] = BitAnd(@, vy)]
          [] n = 3 -> [registers EXCEPT ![x] = BitXor(@, vy)]
          [] n = 4 -> AddWithCarry(x, vx, vy)
          [] n = 5 -> SubWithBorrow(x, vx, vy)
          [] n = 6 -> [[registers EXCEPT ![15] = vx % 2]
                          EXCEPT ![x] = vx \div 2]
          [] n = 7 -> ReverseSub(x, vx, vy)
          [] n = 14 -> [[registers EXCEPT ![15] = (vx \div 128) % 2]
                          EXCEPT ![x] = (vx * 2) % Byte]

AluKnown(opcode) == OpN(opcode) \in {0, 1, 2, 3, 4, 5, 6, 7, 14}

handle_8xxx(opcode, p) ==
    IF AluKnown(opcode) THEN SetRegisters(Alu(opcode), p) ELSE UnknownOpcode(p)

handle_9xxx(opcode, p) == Skip(registers[OpX(opcode)] # registers[OpY(opcode)], p)

handle_Axxx(opcode, p) ==
    /\ i_register' = OpNNN(opcode)
    /\ pc' = p
    /\ UNCHANGED <<memory, registers, delay_timer, sound_timer, stack,
                   display, keys, waiting_key_opcode, panic>>

handle_Bxxx(opcode, p) ==
    /\ pc' = registers[0] + OpNNN(opcode)
    /\ UNCHANGED <<memory, registers, i_register, delay_timer, sound_timer,
                   stack, display, keys, waiting_key_opcode, panic>>

\* rand::random::<u8>()
RandomBytes == 0 .. 255

handle_Cxxx(opcode, p) ==
    \E r \in RandomBytes :
        SetRegisters([registers EXCEPT ![OpX(opcode)] = BitAnd(r, OpNN(opcode))], p)

\* (mutation: the sprite bit is added to the cell, not XORed onto it)
RECURSIVE DrawLoopAdding(_, _, _, _, _, _)
DrawLoopAdding(k, n, x, y, d, vf) ==
    IF k >= 8 * n THEN [display |-> d, vf |-> vf]
    ELSE LET row == k \div 8
             col == k % 8
             pixel == SpriteBit(memory[i_register + row], col)
             disp_x == (x + col) % DisplayWidth
             disp_y == (y + row) % DisplayHeight
             cur_pixel == d[disp_y][disp_x]
         IN  DrawLoopAdding(k + 1, n, x, y,
                      [d EXCEPT ![disp_y][disp_x] = (cur_pixel + pixel) % Byte],
                      IF cur_pixel > 0 /\ pixel > 0 THEN 1 ELSE vf)

\* (mutation: pixels are set, not toggled)
RECURSIVE DrawLoopSetting(_, _, _, _, _, _)
DrawLoopSetting(k, n, x, y, d, vf) ==
    IF k >= 8 * n THEN [display |-> d, vf |-> vf]
    ELSE LET row == k \div 8
             col == k % 8
             pixel == SpriteBit(memory[i_register + row], col)
             disp_x == (x + col) % DisplayWidth
             disp_y == (y + row) % DisplayHeight
             cur_pixel == d[disp_y][disp_x]
         IN  DrawLoopSetting(k + 1, n, x, y,
                      [d EXCEPT ![disp_y][disp_x] = BitOr(cur_pixel, pixel)],
                      IF cur_pixel > 0 /\ pixel > 0 THEN 1 ELSE vf)

\* (mutation: pixels past the right or bottom edge are dropped)
RECURSIVE DrawLoopClipping(_, _, _, _, _, _)
DrawLoopClipping(k, n, x, y, d, vf) ==
    IF k >= 8 * n THEN [display |-> d, vf |-> vf]
    ELSE LET row == k \div 8
             col == k % 8
             pixel == SpriteBit(memory[i_register + row], col)
             disp_x == (x + col) % DisplayWidth
             disp_y == (y + row) % DisplayHeight
             cur_pixel == d[disp_y][disp_x]
         IN  IF x + col >= DisplayWidth \/ y + row >= DisplayHeight
             THEN DrawLoopClipping(k + 1, n, x, y, d, vf)
             ELSE DrawLoopClipping(k + 1, n, x, y,
                      [d EXCEPT ![disp_y][disp_x] = BitXor(cur_pixel, pixel)],
                      IF cur_pixel > 0 /\ pixel > 0 THEN 1 ELSE vf)

\* The row/col loops of handle_Dxxx, pixel k = 8 * row + col onwards, on
\* display d with flag vf: the display and flag the loops end with.
RECURSIVE DrawLoop(_, _, _, _, _, _)
DrawLoop(k, n, x, y, d, vf) ==
    IF k >= 8 * n THEN [display |-> d, vf |-> vf]
    ELSE LET row == k \div 8
             col == k % 8
             pixel == SpriteBit(memory[i_register + row], col)
             disp_x == (x + col) % DisplayWidth
             disp_y == (y + row) % DisplayHeight
             cur_pixel == d[disp_y][disp_x]
         IN  DrawLoop(k + 1, n, x, y,
                      [d EXCEPT ![disp_y][disp_x] = BitXor(cur_pixel, pixel)],
                      IF cur_pixel > 0 /\ pixel > 0 THEN 1 ELSE vf)

handle_Dxxx(opcode, p) ==
    LET vx == registers[OpX(opcode)]
        vy == registers[OpY(opcode)]
        n == OpN(opcode)
        x == vx % DisplayWidth
        y == vy % DisplayHeight
    IN  IF i_register + n > MemSize
        THEN \* the slice &self.memory[i .. i + n] is out of range
             /\ pc' = p
             /\ panic' = "IndexOutOfBounds"
             /\ UNCHANGED <<memory, registers, i_register, delay_timer,
                            sound_timer, stack, display, keys,
                            waiting_key_opcode>>
        ELSE LET out == DrawLoop(0, n, x, y, display, 0)
             IN  /\ display' = out.display
                 /\ registers' = [registers EXCEPT ![15] = out.vf]
                 /\ pc' = p
                 /\ UNCHANGED <<memory, i_register, delay_timer, sound_timer,
                                stack, keys, waiting_key_opcode, panic>>

handle_Exxx(opcode, p) ==
    LET vx == registers[OpX(opcode)]
        nn == OpNN(opcode)
    IN  IF nn \notin {158, 161}                       \* 0x9E, 0xA1
        THEN UnknownOpcode(p)
        ELSE IF vx >= NumKeys
        THEN \* self.keys[vx] is out of range
             /\ pc' = p
             /\ panic' = "IndexOutOfBounds"
             /\ UNCHANGED <<memory, registers, i_register, delay_timer,
                            sound_timer, stack, display, keys,
                            waiting_key_opcode>>
        ELSE Skip(IF nn = 158 THEN keys[vx] ELSE ~keys[vx], p)

IsGetKey(opcode) == Family(opcode) = 15 /\ OpNN(opcode) = 10

\* FX0A: the index the scan of self.keys stops at
PressedKeys == {k \in 0 .. (NumKeys - 1) : keys[k]}
\* (mutation: the scan keeps the last pressed key instead of breaking)
LastPressed == CHOOSE k \in PressedKeys : \A j \in PressedKeys : k >= j

FirstPressed == CHOOSE k \in PressedKeys : \A j \in PressedKeys : k <= j

\* (mutation: the loop stops one value short, 0..x instead of 0..=x)
RECURSIVE StoreLoopExclusive(_, _, _)
StoreLoopExclusive(mem, at, vals) ==
    IF Len(vals) <= 1 \/ at >= MemSize THEN mem
    ELSE StoreLoopExclusive([mem EXCEPT ![at] = Head(vals)], at + 1, Tail(vals))

\* FX33 / FX55: memory after writing vals[1..] to at, at + 1, ... until a
\* write falls outside memory
RECURSIVE StoreLoop(_, _, _)
StoreLoop(mem, at, vals) ==
    IF vals = << >> \/ at >= MemSize THEN mem
    ELSE StoreLoop([mem EXCEPT ![at] = Head(vals)], at + 1, Tail(vals))

\* FX65: registers after reading registers 0..x from memory until a read
\* falls outside memory
LoadLoop(x) ==
    [r \in Regs |->
        IF r <= x /\ i_register + r < MemSize
        THEN memory[i_register + r] ELSE registers[r]]

Bcd(vx) == <<vx \div 100, (vx \div 10) % 10, vx % 10>>

handle_Fxxx(opcode, p) ==
    LET x == OpX(opcode)
        vx == registers[x]
        nn == OpNN(opcode)
        regs0x == [k \in 1 .. (x + 1) |-> registers[k - 1]]
    IN  CASE nn = 7 ->                                    \* 0xF007
               SetRegisters([registers EXCEPT ![x] = delay_timer], p)
          [] nn = 10 ->                                   \* 0xF00A
               /\ IF PressedKeys = {}
                  THEN /\ waiting_key_opcode' = opcode
                       /\ UNCHANGED registers
                  ELSE /\ waiting_key_opcode' = 0
                       /\ registers' = [registers EXCEPT ![x] = FirstPressed]
               /\ pc' = p
               /\ UNCHANGED <<memory, i_register, delay_timer, sound_timer,
                              stack, display, keys, panic>>
          [] nn = 21 ->                                   \* 0xF015
               /\ delay_timer' = vx
               /\ pc' = p
               /\ UNCHANGED <<memory, registers, i_register, sound_timer,
                              stack, display, keys, waiting_key_opcode, panic>>
          [] nn = 24 ->                                   \* 0xF018
               /\ sound_timer' = vx
               /\ pc' = p
               /\ UNCHANGED <<memory, registers, i_register, delay_timer,
                              stack, display, keys, waiting_key_opcode, panic>>
          [] nn = 30 ->                                   \* 0xF01E
               IF i_register + vx < Word
               THEN /\ i_register' = i_register + vx
                    /\ pc' = p
                    /\ UNCHANGED <<memory, registers, delay_timer,
                                   sound_timer, stack, display, keys,
                                   waiting_key_opcode, panic>>
               ELSE \* u16 overflow: a panic with overflow checks, else wraps
                    \/ /\ pc' = p
                       /\ panic' = "AddOverflow"
                       /\ UNCHANGED <<memory, registers, i_register,
                                      delay_timer, sound_timer, stack,
                                      display, keys, waiting_key_opcode>>
                    \/ /\ i_register' = (i_register + vx) % Word
                       /\ pc' = p
                       /\ UNCHANGED <<memory, registers, delay_timer,
                                      sound_timer, stack, display, keys,
                                      waiting_key_opcode, panic>>
          [] nn = 41 ->                                   \* 0xF029
               /\ i_register' = vx * 5
               /\ pc' = p
               /\ UNCHANGED <<memory, registers, delay_timer, sound_timer,
                              stack, display, keys, waiting_key_opcode, panic>>
          [] nn = 51 ->                                   \* 0xF033
               /\ memory' = StoreLoop(memory, i_register, Bcd(vx))
               /\ panic' = IF i_register + 2 >= MemSize
                           THEN "IndexOutOfBounds" ELSE "none"
               /\ pc' = p
               /\ UNCHANGED <<registers, i_register, delay_timer, sound_timer,
                              stack, display, keys, waiting_key_opcode>>
          [] nn = 85 ->                                   \* 0xF055
               /\ memory' = StoreLoop(memory, i_register, regs0x)
               /\ panic' = IF i_register + x >= MemSize
                           THEN "IndexOutOfBounds" ELSE "none"
               /\ pc' = p
               /\ UNCHANGED <<registers, i_register, delay_timer, sound_timer,
                              stack, display, keys, waiting_key_opcode>>
          [] nn = 101 ->                                  \* 0xF065
               /\ registers' = LoadLoop(x)
               /\ panic' = IF i_register + x >= MemSize
                           THEN "IndexOutOfBounds" ELSE "none"
               /\ pc' = p
               /\ UNCHANGED <<memory, i_register, delay_timer, sound_timer,
                              stack, display, keys, waiting_key_opcode>>
          [] OTHER -> UnknownOpcode(p)

(* ------------------------------------------------------------------ *)
(* Chip8::execute_opcode                                                *)
(* ------------------------------------------------------------------ *)
\* the match on opcode & 0xF000
Dispatch(opcode, p) ==
    CASE Family(opcode) = 0 -> handle_0xxx(opcode, p)
      [] Family(opcode) = 1 -> handle_1xxx(opcode, p)
      [] Family(opcode) = 2 -> handle_2xxx(opcode, p)
      [] Family(opcode) = 3 -> handle_3xxx(opcode, p)
      [] Family(opcode) = 4 -> handle_4xxx(opcode, p)
      [] Family(opcode) = 5 -> handle_5xxx(opcode, p)
      [] Family(opcode) = 6 -> handle_6xxx(opcode, p)
      [] Family(opcode) = 7 -> handle_7xxx(opcode, p)
      [] Family(opcode) = 8 -> handle_8xxx(opcode, p)
      [] Family(opcode) = 9 -> handle_9xxx(opcode, p)
      [] Family(opcode) = 10 -> handle_Axxx(opcode, p)
      [] Family(opcode) = 11 -> handle_Bxxx(opcode, p)
      [] Family(opcode) = 12 -> handle_Cxxx(opcode, p)
      [] Family(opcode) = 13 -> handle_Dxxx(opcode, p)
      [] Family(opcode) = 14 -> handle_Exxx(opcode, p)
      [] Family(opcode) = 15 -> handle_Fxxx(opcode, p)

\* history of a timer across one execute_opcode call
Written(h, old, new) == IF new # old THEN [base |-> new, n |-> 0] ELSE h

\* history of the calls in progress across one executed instruction
Called(calls, opcode, at) ==
    CASE Family(opcode) = 2 -> Append(calls, at)
      [] opcode = 238 /\ calls # << >> -> SubSeq(calls, 1, Len(calls) - 1)
      [] OTHER -> calls

ExecuteOpcode ==
    /\ panic = "none"
    /\ IF FetchOutOfBounds
       THEN /\ panic' = "OpcodeOutOfBounds"
            /\ last' = [last EXCEPT !.op = "execute_opcode",
                                    !.nexec = Min(@ + 1, 2)]
            /\ UNCHANGED chip8
       ELSE /\ Len(stack) < MaxStack \/ Family(FetchedOpcode) # 2
            /\ Dispatch(FetchedOpcode, FetchedPc)
            /\ last' = [last EXCEPT
                          !.op = "execute_opcode",
                          !.nexec = Min(@ + 1, 2),
                          !.prev = last.exec,
                          !.calls = Called(@, FetchedOpcode, pc),
                          !.exec = [opcode |-> FetchedOpcode, addr |-> pc,
                                    pcf |-> FetchedPc,
                                    reused |-> ReusesPending,
                                    regs |-> registers,
                                    keys |-> IF IsGetKey(FetchedOpcode)
                                             THEN PressedKeys ELSE {},
                                    blank |-> (display = BlankDisplay)],
                          !.dt = Written(@, delay_timer, delay_timer'),
                          !.st = Written(@, sound_timer, sound_timer')]

(* ------------------------------------------------------------------ *)
(* update_keys (src/src/main.rs): Escape restarts, then the 16 keys are  *)
(* overwritten from the keyboard                                         *)
(* ------------------------------------------------------------------ *)
KeyState(pressed) == [k \in 0 .. (NumKeys - 1) |-> k \in pressed]

update_keys(escape, pressed) ==
    IF escape
    THEN /\ RestartFields(KeyState(pressed))
         /\ last' = FreshLast("update_keys")
         /\ UNCHANGED <<memory, panic>>
    ELSE /\ keys' = KeyState(pressed)
         /\ UNCHANGED <<last, memory, registers, i_register, pc, delay_timer,
                        sound_timer, stack, display, waiting_key_opcode,
                        panic>>

\* the host's frame: keypad states drawn from keysets
UpdateKeys(keysets) ==
    /\ panic = "none"
    /\ \E escape \in BOOLEAN, pressed \in keysets : update_keys(escape, pressed)

(* ------------------------------------------------------------------ *)
(* Program images                                                       *)
(* ------------------------------------------------------------------ *)
\* the bytes of a sequence of 16-bit instructions, big-endian
RECURSIVE Asm(_)
Asm(words) ==
    IF words = << >> THEN << >>
    ELSE <<Head(words) \div 256, Head(words) % 256>> \o Asm(Tail(words))

\* main(): load_from_file runs once, before the systems start; with
\* anytime the image is loaded over whatever state the machine is in.
LoadRom(roms, anytime) ==
    /\ panic = "none"
    /\ anytime \/ last.op = "default"
    /\ \E rom \in roms :
        /\ last' = [FreshLast("load_rom") EXCEPT !.rom = rom, !.loaded = TRUE]
        /\ load_rom(rom, StartAddress)

(* ------------------------------------------------------------------ *)
(* Get-key and timer programs                                           *)
(* ------------------------------------------------------------------ *)
\* a full-size image: jump to 0xFFE, where its last instruction, F00A, sits
KeyAtEnd ==
    <<\h1F, \hFE>> \o [k \in 1 .. (MemSize - StartAddress - 4) |-> 0]
                   \o <<\hF0, \h0A>>

\* 200: wait for a key into V3, set V1, loop
KeyLoop == Asm(<<\hF30A, \h6105, \h1200>>)

\* 200: V0 = AB; I = 300; store V0; V2 = 2; delay = 2; V2 += 1; sound = 3;
\* draw; call 214; (212) halt; 214: wait for a key into V1; return
KeyInCall ==
    Asm(<<\h60AB, \hA300, \hF055, \h6202, \hF215, \h7201, \hF218, \hD001,
          \h2214, \h1212, \hF10A, \h00EE>>)

KeyRoms == {KeyLoop, KeyAtEnd, KeyInCall}

KeySets == {{}, {7}, {3, 7}, {0, 15}}

\* The host: main() loads one of roms, then the systems run in any order.
Host(roms, anytime, keysets) ==
    \/ LoadRom(roms, anytime)
    \/ ExecuteOpcode
    \/ UpdateTimers
    \/ UpdateKeys(keysets)
    \/ Restart
    \/ Reset

Next == Host(KeyRoms, FALSE, KeySets)

Spec == Init /\ [][Next]_vars

(* ------------------------------------------------------------------ *)
(* Get-key suspension                                                   *)
(* ------------------------------------------------------------------ *)
\* C1: an FX0A executed with no key pressed makes waiting_key_opcode that
\* instruction and leaves pc at its address + 2; every execute_opcode call
\* made while waiting with still no key pressed re-executes that very
\* instruction instead of fetching, with pc and waiting_key_opcode kept.
C1_GetKeyStalls ==
    [][ExecuteOpcode =>
          /\ (/\ ~ReusesPending /\ ~FetchOutOfBounds
              /\ IsGetKey(WordAt(memory, pc)) /\ PressedKeys = {})
             => /\ waiting_key_opcode' = WordAt(memory, pc)
                /\ pc' = pc + 2
          /\ (waiting_key_opcode # 0 /\ PressedKeys = {})
             => /\ panic' = "none"
                /\ last'.exec.reused
                /\ last'.exec.opcode = waiting_key_opcode
                /\ pc' = pc
                /\ waiting_key_opcode' = waiting_key_opcode]_vars

\* the smallest index of a pressed key, stated on self.keys itself
IsLowestPressed(v) == /\ v \in 0 .. (NumKeys - 1)
                      /\ keys[v]
                      /\ \A j \in 0 .. (NumKeys - 1) : j < v => ~keys[j]

\* an execute_opcode call that runs FX0A with a key down stores the lowest
\* pressed index in register X and returns to Running
GetKeyTakesLowest ==
    (/\ ~FetchOutOfBounds /\ IsGetKey(FetchedOpcode) /\ PressedKeys # {})
    => /\ IsLowestPressed(registers'[OpX(FetchedOpcode)])
       /\ waiting_key_opcode' = 0
       /\ panic' = "none"

\* the machine has just taken a key: FX0A was the last instruction executed
\* and nothing is pending
KeyJustTaken ==
    /\ last.op = "execute_opcode" /\ IsGetKey(last.exec.opcode)
    /\ last.exec.keys # {}

\* the call fetches the word at pc and advances pc by 2 before executing it
FetchesAtPc ==
    /\ pc + 1 < MemSize
    /\ panic' # "OpcodeOutOfBounds"
    /\ ~last'.exec.reused
    /\ last'.exec.opcode = WordAt(memory, pc)
    /\ last'.exec.pcf = pc + 2

\* C2 as stated: FX0A (re-)executed with a key pressed stores the lowest
\* pressed index in register X, clears waiting_key_opcode, and the next
\* execute_opcode call fetches the instruction at pc and advances pc by 2.
C2_KeyTakenThenFetch ==
    [][ExecuteOpcode =>
          /\ GetKeyTakesLowest
          /\ KeyJustTaken => FetchesAtPc]_vars

\* C2 amended: the same, the next call fetching when pc + 1 < 4096 and
\* failing on the fetch bounds test otherwise.
C2_KeyTakenThenFetchInBounds ==
    [][ExecuteOpcode =>
          /\ GetKeyTakesLowest
          /\ KeyJustTaken =>
               IF pc + 1 < MemSize
               THEN FetchesAtPc
               ELSE panic' = "OpcodeOutOfBounds" /\ UNCHANGED chip8]_vars

\* FX0A was re-executed while waiting with keys 3 and 7 down, took 3, and
\* the following call fetched the next instruction
C2_Witness ==
    /\ last.op = "execute_opcode"
    /\ IsGetKey(last.prev.opcode) /\ last.prev.reused
    /\ last.prev.keys = {3, 7}
    /\ ~last.exec.reused /\ last.exec.addr = last.prev.addr
    /\ last.exec.pcf = last.exec.addr + 2
    /\ last.exec.regs[OpX(last.prev.opcode)] = 3
    /\ waiting_key_opcode = 0

(* ------------------------------------------------------------------ *)
(* Restart and reset                                                    *)
(* ------------------------------------------------------------------ *)
\* every field but memory (and, for the host's frame, keys) holds the value
\* Chip8::default gives it
InitialFields ==
    /\ \A r \in Regs : registers[r] = 0
    /\ i_register = 0
    /\ pc = 512
    /\ stack = << >>
    /\ \A r \in Rows : \A c \in Cols : display[r][c] = 0
    /\ delay_timer = 0
    /\ sound_timer = 0
    /\ waiting_key_opcode = 0

AllKeysUp == \A k \in 0 .. (NumKeys - 1) : keys[k] = FALSE

\* C6: restart() leaves all 4096 memory bytes as they were and gives every
\* other field its initial value, whatever state it is called in (so does
\* the Escape branch of the host's key frame, before the keys are written);
\* reset() does the same and zeroes memory as well.
C6_RestartKeepsMemory ==
    [][/\ Restart => /\ memory' = memory
                     /\ InitialFields' /\ AllKeysUp' /\ panic' = "none"
       /\ (\E pressed \in KeySets : update_keys(TRUE, pressed))
             => /\ memory' = memory
                /\ InitialFields' /\ panic' = "none"
       /\ Reset => /\ memory' = [a \in Addrs |-> 0]
                   /\ InitialFields' /\ AllKeysUp' /\ panic' = "none"]_vars

\* restart() ran while the machine waited for a key inside a subroutine
\* with pixels lit, and the byte the program stored at 0x300 is still there
C6_Witness ==
    /\ last.op = "restart"
    /\ last.was
    /\ memory[768] = 171 /\ memory[512] = 96
    /\ InitialFields /\ AllKeysUp

(* ------------------------------------------------------------------ *)
(* Timers                                                               *)
(* ------------------------------------------------------------------ *)
\* C7: update_timers never fails, touches nothing but the two timers, and
\* takes each to max(0, t - 1); k ticks after a timer was written with t it
\* holds max(0, t - k), whatever was executed or restarted in between.
C7_TimersFloorAtZero ==
    /\ [][UpdateTimers =>
            /\ panic' = "none"
            /\ UNCHANGED <<memory, registers, i_register, pc, stack, display,
                           keys, waiting_key_opcode>>
            /\ delay_timer' = Max0(delay_timer - 1)
            /\ sound_timer' = Max0(sound_timer - 1)]_vars
    /\ [](/\ delay_timer = last.dt.base - last.dt.n
          /\ sound_timer = last.st.base - last.st.n)

\* the sound timer, written with 3, has been ticked down to 0 while the
\* delay timer, written with 2 before it, has been sitting at 0
C7_Witness ==
    /\ last.st = [base |-> 3, n |-> 3] /\ sound_timer = 0
    /\ last.dt = [base |-> 2, n |-> 2] /\ delay_timer = 0

(* ------------------------------------------------------------------ *)
(* Subroutines                                                          *)
(* ------------------------------------------------------------------ *)
\* 200: call 206; (202) halt; 206: call 20A; return; 20A: call 20E; return;
\* 20E: return  -- three calls deep
NestedCalls ==
    Asm(<<\h2206, \h1202, \h0000, \h220A, \h00EE, \h220E, \h00EE, \h00EE>>)

\* 200: call 206; 202: call 206; (204) halt; 206: return
CallTwice == Asm(<<\h2206, \h2206, \h1204, \h00EE>>)

\* 200: call 200
Recursion == Asm(<<\h2200>>)

\* 200: return with nothing to return to
BareReturn == Asm(<<\h00EE>>)

\* 200: V0 = 2; delay = 2; call 208; (206) halt; 208: wait for a key into V1;
\* skip if key V1 is down; return; return
CallWithKey ==
    Asm(<<\h6002, \hF015, \h2208, \h1206, \hF10A, \hE19E, \h00EE, \h00EE>>)

CallRoms == {NestedCalls, CallTwice, Recursion, BareReturn, CallWithKey}

CallKeySets == {{}, {3, 7}}

NextCall == Host(CallRoms, FALSE, CallKeySets)

SpecCall == Init /\ [][NextCall]_vars

IsCall(opcode) == Family(opcode) = 2
IsReturn(opcode) == opcode = 238

\* the return addresses of the calls in progress, oldest first
ReturnAddresses == [k \in 1 .. Len(last.calls) |-> last.calls[k] + 2]

\* C4: 2NNN pushes the address after itself and jumps to NNN; 00EE takes pc
\* from the call made last among those not yet returned from and removes
\* it; so the stack always holds the return addresses of the calls in
\* progress, and a call followed at once by a return resumes right after
\* the call.
C4_StackDiscipline ==
    /\ [][ExecuteOpcode =>
            /\ (~FetchOutOfBounds /\ IsCall(FetchedOpcode))
               => /\ stack' = Append(stack, pc + 2)
                  /\ pc' = FetchedOpcode % 4096
            /\ (~FetchOutOfBounds /\ IsReturn(FetchedOpcode) /\ last.calls # << >>)
               => /\ pc' = last.calls[Len(last.calls)] + 2
                  /\ Len(stack') = Len(stack) - 1
                  /\ panic' = "none"]_vars
    /\ [](stack = ReturnAddresses)
    /\ []((/\ last.op = "execute_opcode" /\ panic = "none"
           /\ IsReturn(last.exec.opcode) /\ IsCall(last.prev.opcode))
          => pc = last.prev.addr + 2)

\* two calls are in progress and the third has just returned to the
\* instruction after it
C4_Witness ==
    /\ last.op = "execute_opcode" /\ panic = "none"
    /\ IsReturn(last.exec.opcode) /\ IsCall(last.prev.opcode)
    /\ Len(stack) = 2 /\ stack = <<514, 520>>
    /\ pc = 524

(* ------------------------------------------------------------------ *)
(* Decoding                                                             *)
(* ------------------------------------------------------------------ *)
\* One-instruction programs: every low nibble of 5XYN, 8XYN and 9XYN, and
\* documented and undocumented words of the other families.
DecodeOpcodes ==
    {\h5010 + n : n \in 0 .. 15} \cup {\h8010 + n : n \in 0 .. 15}
    \cup {\h9010 + n : n \in 0 .. 15}
    \cup {\h0000, \h00E0, \h00EE, \h00E1, \h00EF, \h01E0, \h0123}
    \cup {\hE09E, \hE0A1, \hE09F, \hE0A0, \hE000, \hE19E, \hE0FF}
    \cup {\hF007, \hF00A, \hF015, \hF018, \hF01E, \hF029, \hF033, \hF055,
          \hF065, \hF000, \hF00B, \hF016, \hF034, \hF056, \hF075, \hF0FF}
    \cup {\h1300, \h2300, \h3000, \h4000, \h6012, \h7012, \hA123, \hB300,
          \hC003, \hD001}

DecodeRoms == {Asm(<<opcode>>) : opcode \in DecodeOpcodes}

DecodeKeySets == {{}, {0}}

NextDecode == Host(DecodeRoms, FALSE, DecodeKeySets)

SpecDecode == Init /\ [][NextDecode]_vars

\* the documented instruction set
Documented(opcode) ==
    LET f == opcode \div 4096
        n == opcode % 16
        nn == opcode % 256
    IN  CASE f = 0 -> opcode \in {\h00E0, \h00EE}
          [] f \in {5, 9} -> n = 0
          [] f = 8 -> n \in {0, 1, 2, 3, 4, 5, 6, 7, 14}
          [] f = 14 -> nn \in {\h9E, \hA1}
          [] f = 15 -> nn \in {\h07, \h0A, \h15, \h18, \h1E, \h29, \h33,
                               \h55, \h65}
          [] OTHER -> TRUE

\* the instruction was refused: nothing but the fetch happened
Refused ==
    /\ panic' = "UnknownOpcode"
    /\ UNCHANGED <<memory, registers, i_register, delay_timer, sound_timer,
                   stack, display, keys, waiting_key_opcode>>

\* C3: decoding is strict: every fetched word that is not a documented
\* instruction of its family (0NNN other than 00E0/00EE, 5XYN and 9XYN with
\* N # 0, 8XYN with N outside 0..7 and E, EXNN other than 9E/A1, FXNN outside
\* the documented set) raises the unknown-opcode error instead of executing.
C3_DecodeStrict ==
    [][(ExecuteOpcode /\ ~FetchOutOfBounds /\ ~Documented(FetchedOpcode))
         => Refused]_vars

\* What the code does refuse: every undocumented word outside the 5XYN and
\* 9XYN families.
DecodeStrictButSkips ==
    [][(ExecuteOpcode /\ ~FetchOutOfBounds /\ ~Documented(FetchedOpcode)
          /\ Family(FetchedOpcode) \notin {5, 9})
         => Refused]_vars

(* ------------------------------------------------------------------ *)
(* Loading                                                              *)
(* ------------------------------------------------------------------ *)
\* one byte more than fits above 0x200, no byte of it zero
Oversized ==
    <<1>> \o [k \in 1 .. (MemSize - StartAddress) |-> (k % 255) + 1]

\* exactly as many bytes as fit above 0x200: 60 05, then no zero byte
FullSize ==
    <<\h60, \h05>> \o [k \in 1 .. (MemSize - StartAddress - 2) |-> (k % 255) + 1]

\* 200: V0 = AB; I = 300; store V0; V1 = 1; delay = 1; sound = 1; draw;
\* call 212; (210) halt; 212: wait for a key into V2; return
DirtyAll ==
    Asm(<<\h60AB, \hA300, \hF055, \h6101, \hF115, \hF118, \hD001, \h2212,
          \h1210, \hF20A, \h00EE>>)

LoadRoms ==
    { << >>, <<\h60>>, Asm(<<\h6005>>), Asm(<<\h1204, \h0000, \h6005>>),
      Asm(<<\h3000, \h0000, \h6005>>), FullSize, Oversized, DirtyAll }

LoadKeySets == {{}, {3, 7}}

NextLoad == Host(LoadRoms, TRUE, LoadKeySets)

SpecLoad == Init /\ [][NextLoad]_vars

\* what load_rom(image, 0x200) has to leave
LoadEffect(image) ==
    /\ InitialFields' /\ AllKeysUp'
    /\ IF Len(image) + 512 > 4096
       THEN /\ panic' = "RomTooLarge"
            /\ memory' = [a \in Addrs |-> 0]
       ELSE /\ panic' = "none"
            /\ LET len == Len(image) IN
               memory' = [a \in Addrs |->
                            IF a >= 512 /\ a - 512 < len
                            THEN image[a - 511] ELSE 0]

\* instructions that leave pc where the fetch left it
NonControlFlow(opcode) ==
    /\ Family(opcode) \notin {1, 2, 3, 4, 5, 9, 11, 14}
    /\ opcode # \h00EE

\* C5: load_rom(image, 0x200), from any state: an image that does not fit
\* fails with the machine fully reset and no byte copied; any other image is
\* copied to 0x200.. over a fully reset machine, so that the first
\* execute_opcode runs the word image[0], image[1] and leaves pc = 0x202
\* unless that instruction is a jump, call, return or skip.
C5_LoadResetsThenCopies ==
    [][/\ LoadRom(LoadRoms, TRUE) => LoadEffect(last'.rom)
       /\ (/\ last.loaded /\ last.nexec = 0
           /\ Len(last.rom) >= 2 /\ Len(last.rom) + 512 <= 4096
           /\ ExecuteOpcode)
          => /\ last'.exec.opcode = last.rom[1] * 256 + last.rom[2]
             /\ last'.exec.pcf = 514
             /\ NonControlFlow(last'.exec.opcode) => pc' = 514]_vars

\* the two-byte image 60 05 was loaded over a machine that was waiting for
\* a key inside a subroutine with pixels lit, and its first step ran
C5_Witness ==
    /\ last.loaded /\ last.rom = <<96, 5>> /\ last.nexec = 1
    /\ last.was
    /\ registers[0] = 5 /\ pc = 514 /\ panic = "none"
    /\ memory[768] = 0


(* ------------------------------------------------------------------ *)
(* The flag register                                                    *)
(* ------------------------------------------------------------------ *)
AluValues == {0, 1, 5, 10, 128, 255}

\* the X, Y register pairs tried, the flag register among them
AluPairs == {<<0, 1>>, <<1, 1>>, <<1, 15>>, <<15, 1>>, <<15, 15>>}

AluOps == {0, 1, 2, 3, 4, 5, 6, 7, 14}

\* 200: VX = a; 202: VY = b; 204: 8XYN
AluProgram(x, y, a, b, n) ==
    Asm(<<\h6000 + 256 * x + a, \h6000 + 256 * y + b,
          \h8000 + 256 * x + 16 * y + n>>)

\* 200: I = 20E; V1 = 2; delay = 2; VF = 3; draw FF at (VF, V1), which
\* clears VF; draw FF at (VF, V1) again, overlapping the first; draw at
\* (V1, VF) on a blank row; 20E: the sprite byte
FlagDraws ==
    Asm(<<\hA20E, \h6102, \hF115, \h6F03, \hDF11, \hDF11, \hD1F1>>) \o <<\hFF>>

AluRoms ==
    {AluProgram(xy[1], xy[2], a, b, n) :
        xy \in AluPairs, a \in AluValues, b \in AluValues, n \in AluOps}
    \cup {FlagDraws}

AluKeySets == {{}, {0}}

NextAlu == Host(AluRoms, FALSE, AluKeySets)

SpecAlu == Init /\ [][NextAlu]_vars

FlagProducing(opcode) ==
    \/ Family(opcode) = 8 /\ OpN(opcode) \in {4, 5, 6, 7, 14}
    \/ Family(opcode) = 13

\* the sprite of DXYN has a set bit on a lit pixel
Collides(opcode) ==
    LET x == registers[OpX(opcode)] % 64
        y == registers[OpY(opcode)] % 32
    IN  \E row \in 0 .. (OpN(opcode) - 1), col \in 0 .. 7 :
            /\ SpriteBit(memory[i_register + row], col) = 1
            /\ display[(y + row) % 32][(x + col) % 64] > 0

\* the flag of a flag-producing instruction, from the operands as they are
\* before it runs: carry, no borrow, the bit shifted out, collision
FlagOf(opcode) ==
    LET vx == registers[OpX(opcode)]
        vy == registers[OpY(opcode)]
        n == OpN(opcode)
    IN  CASE Family(opcode) = 13 -> IF Collides(opcode) THEN 1 ELSE 0
          [] n = 4 -> IF vx + vy > 255 THEN 1 ELSE 0
          [] n = 5 -> IF vx > vy THEN 1 ELSE 0
          [] n = 6 -> vx % 2
          [] n = 7 -> IF vy < vx THEN 0 ELSE 1
          [] n = 14 -> vx \div 128

\* a flag-producing instruction is fetched and runs to its end
RunsFlagOp ==
    /\ ~FetchOutOfBounds
    /\ FlagProducing(FetchedOpcode)
    /\ pc' = FetchedPc
    /\ panic' = "none"
    /\ ExecuteOpcode

\* C8: after every flag-producing instruction (8XY4, 8XY5, 8XY6, 8XY7, 8XYE,
\* DXYN), for every X and Y including 0xF, register 0xF holds the flag
\* computed from the operands read before the instruction, never the
\* arithmetic result.
C8_FlagAlwaysWritten ==
    [][RunsFlagOp => registers'[15] = FlagOf(FetchedOpcode)]_vars

\* the same with the instructions that write register X after the flag
\* (8XY5, 8XY6, 8XY7, 8XYE) taken with X # 0xF only
FlagWrittenUnlessOverwritten ==
    [][(/\ RunsFlagOp
        /\ \/ OpX(FetchedOpcode) # 15
           \/ Family(FetchedOpcode) = 13
           \/ OpN(FetchedOpcode) = 4)
       => registers'[15] = FlagOf(FetchedOpcode)]_vars

\* 8FY5, 8FY6, 8FY7 or 8FYE has left its result, not its flag, in VF
FlagOverwritten ==
    /\ last.op = "execute_opcode" /\ panic = "none"
    /\ Family(last.exec.opcode) = 8 /\ OpX(last.exec.opcode) = 15
    /\ OpN(last.exec.opcode) = 5
    /\ last.exec.regs[15] = 255 /\ last.exec.regs[1] = 1
    /\ registers[15] = 254


(* ------------------------------------------------------------------ *)
(* Drawing                                                              *)
(* ------------------------------------------------------------------ *)
\* sprites of 1, 2 and 15 rows
Sprites ==
    { <<\h00>>, <<\hFF>>, <<\h81>>, <<\hFF, \hFF>>, <<\hC0, \h03>>,
      [k \in 1 .. 15 |-> \h80 + k] \o << >> }

\* the VX, VY values tried: inside, on the last column and row, past them
DrawAt == {<<0, 0>>, <<63, 31>>, <<60, 32>>, <<255, 255>>, <<63, 0>>, <<0, 31>>}

\* 200: I = 20C; VX = a; V1 = b; draw at (VX, V1); draw at (VX, V1); halt;
\* 20C: the sprite
DrawProgram(x, a, b, sprite) ==
    Asm(<<\hA20C, \h6000 + 256 * x + a, \h6100 + b,
          \hD010 + 256 * x + Len(sprite), \hD010 + 256 * x + Len(sprite),
          \h120A>>) \o sprite

DrawRoms ==
    {DrawProgram(x, at[1], at[2], sprite) :
        x \in {0, 15}, at \in DrawAt, sprite \in Sprites}

DrawKeySets == {{}, {0}}

NextDraw == Host(DrawRoms, FALSE, DrawKeySets)

SpecDraw == Init /\ [][NextDraw]_vars

\* a DXYN instruction is fetched and draws its N rows
RunsDraw ==
    /\ ~FetchOutOfBounds
    /\ Family(FetchedOpcode) = 13
    /\ pc' = FetchedPc
    /\ panic' = "none"
    /\ ExecuteOpcode

\* where bit col of sprite row r lands for registers vx, vy
SpriteCol(vx, col) == ((vx % 64) + col) % 64
SpriteRow(vy, r) == ((vy % 32) + r) % 32

BlankRow == [c \in Cols |-> 0]

\* a blank display with exactly the 1-bits of one sprite row lit at vx, vy
SpriteLit(byte, vx, vy) ==
    [r \in Rows |->
        IF r = SpriteRow(vy, 0)
        THEN [c \in Cols |->
                IF \E col \in 0 .. 7 :
                       c = SpriteCol(vx, col) /\ SpriteBit(byte, col) = 1
                THEN 1 ELSE 0]
        ELSE BlankRow]

\* DXY1 on a blank display
FirstDraw ==
    /\ display = BlankDisplay
    /\ RunsDraw
    /\ OpN(FetchedOpcode) = 1

\* the same DXY1 again, right after it ran on a blank display, with VX and
\* VY as they were (a draw changes neither I nor memory)
SecondDraw ==
    /\ last.op = "execute_opcode"
    /\ last.exec.blank
    /\ RunsDraw
    /\ OpN(FetchedOpcode) = 1
    /\ last.exec.opcode = FetchedOpcode
    /\ last.exec.regs[OpX(FetchedOpcode)] = registers[OpX(FetchedOpcode)]
    /\ last.exec.regs[OpY(FetchedOpcode)] = registers[OpY(FetchedOpcode)]

FirstDrawEffect ==
    /\ display' = SpriteLit(memory[i_register], registers[OpX(FetchedOpcode)],
                            registers[OpY(FetchedOpcode)])
    /\ registers'[15] = 0

\* C9 as stated: drawing the same 8x1 sprite twice in a row on a blank
\* display: the first draw lights exactly the sprite's 1-bits and leaves
\* VF = 0; the second leaves the display blank again and VF = 1.
C9_DrawTwice ==
    [][/\ FirstDraw => FirstDrawEffect
       /\ SecondDraw => display' = BlankDisplay /\ registers'[15] = 1]_vars

\* C9, amended: ... and the second draw leaves VF = 1 when the sprite byte
\* has a set bit, VF = 0 when it is 0x00.
C9_DrawTwiceFlagsSetBits ==
    [][/\ FirstDraw => FirstDrawEffect
       /\ SecondDraw =>
             /\ display' = BlankDisplay
             /\ registers'[15] = IF memory[i_register] # 0 THEN 1 ELSE 0]_vars

\* the sprite 81 has been drawn twice in a row at (60, 32) from a blank
\* display: the display is blank again and VF = 1
C9_Witness ==
    /\ last.op = "execute_opcode" /\ panic = "none"
    /\ last.exec.opcode = \hD011 /\ last.prev.opcode = \hD011
    /\ last.prev.blank /\ ~last.exec.blank
    /\ last.exec.regs[0] = 60 /\ last.exec.regs[1] = 32
    /\ memory[i_register] = \h81
    /\ display = BlankDisplay /\ registers[15] = 1

\* C10: DXYN toggles, for every sprite row r < N and bit col < 8 (most
\* significant first), the pixel display[(VY mod 32 + r) mod 32]
\* [(VX mod 64 + col) mod 64] by that bit, whatever VX and VY hold, and
\* changes no other pixel (for a sprite that lies inside memory).
C10_DrawWraps ==
    [][RunsDraw =>
        LET vx == registers[OpX(FetchedOpcode)]
            vy == registers[OpY(FetchedOpcode)]
            n == OpN(FetchedOpcode)
            rows == {SpriteRow(vy, r) : r \in 0 .. (n - 1)}
            cols == {SpriteCol(vx, col) : col \in 0 .. 7}
        IN  /\ \A r \in 0 .. (n - 1), col \in 0 .. 7 :
                   display'[SpriteRow(vy, r)][SpriteCol(vx, col)]
                     = (display[SpriteRow(vy, r)][SpriteCol(vx, col)]
                        + SpriteBit(memory[i_register + r], col)) % 2
            /\ \A rr \in Rows :
                   IF rr \in rows
                   THEN \A c \in Cols \ cols : display'[rr][c] = display[rr][c]
                   ELSE display'[rr] = display[rr]]_vars

\* the two-row sprite FF FF drawn at (63, 31) on a blank display: its
\* second column is column 0 and its second row is row 0
C10_Witness ==
    /\ last.op = "execute_opcode" /\ panic = "none"
    /\ last.exec.opcode = \hD012 /\ last.exec.blank
    /\ last.exec.regs[0] = 63 /\ last.exec.regs[1] = 31
    /\ display[31][63] = 1 /\ display[31][0] = 1 /\ display[31][6] = 1
    /\ display[0][63] = 1 /\ display[0][0] = 1 /\ display[0][6] = 1
    /\ display[31][7] = 0 /\ display[31][62] = 0 /\ display[1][63] = 0
    /\ display[30][63] = 0


(* ------------------------------------------------------------------ *)
(* Add, subtract, reverse subtract                                      *)
(* ------------------------------------------------------------------ *)
\* 8XYN with low nibble n and X # 0xF is fetched and runs
RunsAlu(n) ==
    /\ ~FetchOutOfBounds
    /\ Family(FetchedOpcode) = 8
    /\ OpN(FetchedOpcode) = n
    /\ OpX(FetchedOpcode) # 15
    /\ pc' = FetchedPc
    /\ ExecuteOpcode

\* the instruction leaves res in VX and flag in VF, every other register
\* alone, and pc two past the instruction
AluLeaves(res, flag) ==
    /\ registers'[OpX(FetchedOpcode)] = res
    /\ registers'[15] = flag
    /\ \A r \in Regs \ {OpX(FetchedOpcode), 15} : registers'[r] = registers[r]
    /\ pc' = pc + 2
    /\ panic' = "none"

\* C11: 8XY4 with X # 0xF: VX becomes (vx + vy) mod 256 and VF becomes 1 if
\* vx + vy > 255, else 0; pc advances by 2 and no other register changes.
C11_AddWithCarry ==
    [][RunsAlu(4) =>
        LET vx == registers[OpX(FetchedOpcode)]
            vy == registers[OpY(FetchedOpcode)]
        IN  AluLeaves((vx + vy) % 256, IF vx + vy > 255 THEN 1 ELSE 0)]_vars

\* 8014 has run on V0 = 0xFF, V1 = 0x01: V0 = 0x00 and VF = 1
C11_Witness ==
    /\ last.op = "execute_opcode" /\ panic = "none"
    /\ last.exec.opcode = \h8014
    /\ last.exec.regs[0] = 255 /\ last.exec.regs[1] = 1
    /\ registers[0] = 0 /\ registers[15] = 1 /\ registers[1] = 1
    /\ pc = 518

\* C12: 8XY5 with X # 0xF: VX becomes (vx - vy) mod 256 and VF becomes 1
\* exactly when vx > vy, so equal operands give 0 with flag 0.
C12_SubWithBorrow ==
    [][RunsAlu(5) =>
        LET vx == registers[OpX(FetchedOpcode)]
            vy == registers[OpY(FetchedOpcode)]
        IN  AluLeaves((vx - vy) % 256, IF vx > vy THEN 1 ELSE 0)]_vars

\* 8015 has run on V0 = 0x05, V1 = 0x0A: V0 = 0xFB and VF = 0
C12_Witness ==
    /\ last.op = "execute_opcode" /\ panic = "none"
    /\ last.exec.opcode = \h8015
    /\ last.exec.regs[0] = 5 /\ last.exec.regs[1] = 10
    /\ registers[0] = 251 /\ registers[15] = 0

\* C13: 8XY7 with X # 0xF: VX becomes (vy - vx) mod 256 and VF becomes 0
\* exactly when vy < vx, so equal operands give 0 with flag 1.
C13_ReverseSub ==
    [][RunsAlu(7) =>
        LET vx == registers[OpX(FetchedOpcode)]
            vy == registers[OpY(FetchedOpcode)]
        IN  AluLeaves((vy - vx) % 256, IF vy < vx THEN 0 ELSE 1)]_vars

\* 8017 has run on V0 = V1 = 5: V0 = 0 and VF = 1
C13_Witness ==
    /\ last.op = "execute_opcode" /\ panic = "none"
    /\ last.exec.opcode = \h8017
    /\ last.exec.regs[0] = 5 /\ last.exec.regs[1] = 5
    /\ registers[0] = 0 /\ registers[15] = 1


(* ------------------------------------------------------------------ *)
(* Failures                                                             *)
(* ------------------------------------------------------------------ *)
\* programs that end in each failure: a key index above 15; a sprite, a
\* BCD write, a register store and a register load reaching past 0xFFF; an
\* index register driven past 16 bits by 241 additions of 0xFF to 0xFFF; a
\* return on an empty stack; an unknown word; a jump to 0xFFF
FaultRoms ==
    { Asm(<<\h6010, \hE09E>>), Asm(<<\h6010, \hE0A1>>),
      Asm(<<\hAFFF, \hD002>>), Asm(<<\hAFFE, \hF033>>),
      Asm(<<\hAFFF, \h6107, \hF155>>), Asm(<<\hAFFF, \hF165>>),
      Asm(<<\h60FF, \hAFFF, \hF01E, \h7101, \h31F1, \h1204>>),
      Asm(<<\h6103, \hF115, \h00EE>>), Asm(<<\h0000>>), Asm(<<\h1FFF>>) }

FaultKeySets == {{}, {0}}

NextFault == Host(FaultRoms, FALSE, FaultKeySets)

SpecFault == Init /\ [][NextFault]_vars

\* the failures execute_opcode is documented to have
Taxonomy == {"OpcodeOutOfBounds", "StackUnderflow", "UnknownOpcode"}

\* C14: every execute_opcode call completes or fails with an error of the
\* taxonomy (out of bounds on fetch, stack underflow, unknown opcode).
C14_OnlyTaxonomyErrors ==
    [][(panic' # "none" /\ ExecuteOpcode) => panic' \in Taxonomy]_vars

\* the failures outside the taxonomy come from nowhere but EX9E / EXA1,
\* DXYN, FX33, FX55, FX65 and FX1E
OtherFailuresAreIndexing ==
    [][(panic' # "none" /\ panic' \notin Taxonomy /\ ExecuteOpcode) =>
        \/ /\ Family(FetchedOpcode) = 14
           /\ registers[OpX(FetchedOpcode)] > 15
           /\ panic' = "IndexOutOfBounds"
        \/ /\ Family(FetchedOpcode) = 13
           /\ i_register + OpN(FetchedOpcode) > 4096
           /\ panic' = "IndexOutOfBounds"
        \/ /\ Family(FetchedOpcode) = 15 /\ OpNN(FetchedOpcode) = \h33
           /\ i_register + 2 > 4095
           /\ panic' = "IndexOutOfBounds"
        \/ /\ Family(FetchedOpcode) = 15 /\ OpNN(FetchedOpcode) \in {\h55, \h65}
           /\ i_register + OpX(FetchedOpcode) > 4095
           /\ panic' = "IndexOutOfBounds"
        \/ /\ Family(FetchedOpcode) = 15 /\ OpNN(FetchedOpcode) = \h1E
           /\ i_register + registers[OpX(FetchedOpcode)] > 65535
           /\ panic' = "AddOverflow"]_vars


(* ------------------------------------------------------------------ *)
(* Font glyph address                                                   *)
(* ------------------------------------------------------------------ *)
FontValues == {\h00, \h05, \h0A, \h0F, \h10, \h1A, \h80, \hFF}

\* 200: VX = v; 202: FX29; 204: delay = VX
FontProgram(x, v) ==
    Asm(<<\h6000 + 256 * x + v, \hF029 + 256 * x, \hF015 + 256 * x>>)

FontRoms == {FontProgram(x, v) : x \in {0, 3, 15}, v \in FontValues}

FontKeySets == {{}, {0}}

NextFont == Host(FontRoms, FALSE, FontKeySets)

SpecFont == Init /\ [][NextFont]_vars

RunsFont ==
    /\ ~FetchOutOfBounds
    /\ Family(FetchedOpcode) = 15
    /\ OpNN(FetchedOpcode) = \h29
    /\ pc' = FetchedPc
    /\ ExecuteOpcode

\* C15: FX29 sets the index register to 5 * (VX mod 16), the glyph of the
\* low nibble of VX, for every register value.
C15_FontOfLowNibble ==
    [][RunsFont => i_register' = 5 * (registers[OpX(FetchedOpcode)] % 16)]_vars

\* what FX29 does: 5 * VX, the low nibble not taken
FontOfWholeByte ==
    [][RunsFont => i_register' = 5 * registers[OpX(FetchedOpcode)]]_vars

(* ------------------------------------------------------------------ *)
(* Chip8::get_current_opcode, called by draw_registers every frame       *)
(* (src/src/main.rs)                                                     *)
(* ------------------------------------------------------------------ *)
\* the value get_current_opcode returns when both reads are in range
get_current_opcode == WordAt(memory, pc)

\* self.memory[pc] or self.memory[pc + 1] is out of range
CurrentOpcodeOutOfBounds == pc + 1 >= MemSize

\* draw_registers reads pc and get_current_opcode() into the PC/OP text
draw_registers ==
    /\ panic = "none"
    /\ panic' = IF CurrentOpcodeOutOfBounds THEN "IndexOutOfBounds" ELSE "none"
    /\ UNCHANGED <<chip8, last>>

\* programs that take pc to 0xFFF and above: a jump, a jump with offset, a
\* fetch at 0xFFE, a skip at 0xFFC; and one that stays low
DiagRoms ==
    { Asm(<<\h1FFF>>), Asm(<<\h60FF, \hBFFF>>), Asm(<<\h1FFE>>),
      Asm(<<\h1FFC>>) \o [k \in 1 .. (MemSize - StartAddress - 6) |-> 0]
                      \o <<\h30, \h00, \h00, \h00>>,
      KeyAtEnd, KeyLoop }

DiagKeySets == {{}, {7}}

NextDiag == Host(DiagRoms, FALSE, DiagKeySets) \/ draw_registers

SpecDiag == Init /\ [][NextDiag]_vars

\* C16: get_current_opcode is available in every reachable state between
\* steps: it changes no field of the machine and does not fail, whatever pc
\* the program has produced.
C16_DiagnosticNeverFails ==
    [][draw_registers => (panic' = "none" /\ UNCHANGED chip8)]_vars

\* the read fails exactly when pc has reached 0xFFF or above, and never
\* changes the machine
DiagnosticFailsPastEnd ==
    [][draw_registers =>
        /\ UNCHANGED chip8
        /\ panic' # "none" <=> pc >= 4095]_vars


(* ------------------------------------------------------------------ *)
(* The fetch bounds test                                                *)
(* ------------------------------------------------------------------ *)
\* C17: execute_opcode fails with the out-of-bounds error exactly when it
\* has to read an instruction from memory (waiting_key_opcode = 0) and
\* pc + 1 >= 4096; a step that reuses the pending get-key opcode does not
\* fail with it, whatever pc is.
C17_BoundsOnlyWhenReading ==
    [][ExecuteOpcode =>
        (panic' = "OpcodeOutOfBounds"
           <=> (waiting_key_opcode = 0 /\ pc + 1 >= 4096))]_vars

\* what get_opcode does: the test comes first, so the call fails whenever
\* pc + 1 >= 4096, a pending get-key opcode or not
BoundsTestedFirst ==
    [][ExecuteOpcode => (panic' = "OpcodeOutOfBounds" <=> pc + 1 >= 4096)]_vars

\* the wait of an FX0A at 0xFFE has ended in the out-of-bounds failure
WaitAbortedPastEnd ==
    /\ panic = "OpcodeOutOfBounds"
    /\ waiting_key_opcode = \hF00A
    /\ pc = 4096


(* ------------------------------------------------------------------ *)
(* Register store and load                                              *)
(* ------------------------------------------------------------------ *)
\* index register values: free memory, below the program, the last cells
\* for X = 2 and for X = 15
StoreAt == {\h300, \h1FE, \hFFD, \hFF0}

\* one instruction between the store and the load: none that writes
\* memory or I (V0 = 99; VF = 77; V1 += V0)
Clobbers == {\h6099, \h6F77, \h8104}

\* 200: V0 = 11; V1 = 22; V2 = 33; VF = 44; I = at; FX55; clobber; FX65
StoreProgram(x, at, clobber) ==
    Asm(<<\h6011, \h6122, \h6233, \h6F44, \hA000 + at, \hF055 + 256 * x,
          clobber, \hF065 + 256 * x>>)

StoreRoms ==
    {StoreProgram(x, at, clobber) :
        x \in {0, 2}, at \in StoreAt, clobber \in Clobbers}
    \cup {StoreProgram(15, at, clobber) :
            at \in {\h300, \hFF0}, clobber \in Clobbers}
    \cup {Asm(<<\h6105, \hF115, \hA300, \hF255, \hF265>>)}

StoreKeySets == {{}, {0}}

NextStore == Host(StoreRoms, FALSE, StoreKeySets)

SpecStore == Init /\ [][NextStore]_vars

\* FX55 (nn = 0x55) or FX65 (nn = 0x65) is fetched with I + X <= 4095
RunsStoreLoad(nn) ==
    /\ ~FetchOutOfBounds
    /\ Family(FetchedOpcode) = 15
    /\ OpNN(FetchedOpcode) = nn
    /\ i_register + OpX(FetchedOpcode) <= 4095
    /\ pc' = FetchedPc
    /\ ExecuteOpcode

\* the executed instruction e was the FX55 this FX65 answers: same X, and
\* run with the index register as it is now
AnswersStore(e) ==
    /\ Family(e.opcode) = 15 /\ OpNN(e.opcode) = \h55
    /\ OpX(e.opcode) = OpX(FetchedOpcode)

\* C18: FX55 writes memory[I + i] = V[i] for exactly i = 0..X and no other
\* cell; FX65 reads exactly registers 0..X back from those cells and leaves
\* registers X+1..15 alone; neither changes I; so FX65 after FX55 with the
\* same X and I (directly, or after one instruction that overwrites
\* registers only) restores registers 0..X to the values stored.
C18_StoreLoadRoundTrip ==
    [][/\ RunsStoreLoad(\h55) =>
            /\ memory' = [a \in Addrs |->
                            IF a >= i_register
                               /\ a <= i_register + OpX(FetchedOpcode)
                            THEN registers[a - i_register] ELSE memory[a]]
            /\ i_register' = i_register
            /\ registers' = registers
            /\ panic' = "none"
       /\ RunsStoreLoad(\h65) =>
            /\ \A r \in Regs :
                 registers'[r] = IF r <= OpX(FetchedOpcode)
                                 THEN memory[i_register + r] ELSE registers[r]
            /\ i_register' = i_register
            /\ memory' = memory
            /\ panic' = "none"
            /\ (last.op = "execute_opcode" /\ AnswersStore(last.exec)) =>
                 \A r \in 0 .. OpX(FetchedOpcode) :
                     registers'[r] = last.exec.regs[r]
            /\ (/\ last.op = "execute_opcode" /\ AnswersStore(last.prev)
                /\ last.exec.opcode \in Clobbers) =>
                 \A r \in 0 .. OpX(FetchedOpcode) :
                     registers'[r] = last.prev.regs[r]]_vars

\* F255 at I = 0xFFD stored 11, 22, 33 in the last three cells, V0 was then
\* overwritten with 99, and F265 has brought 11, 22, 33 back, VF still 44
C18_Witness ==
    /\ last.op = "execute_opcode" /\ panic = "none"
    /\ last.exec.opcode = \hF265 /\ last.prev.opcode = \h6099
    /\ last.exec.regs[0] = \h99
    /\ i_register = \hFFD
    /\ memory[4093] = \h11 /\ memory[4094] = \h22 /\ memory[4095] = \h33
    /\ registers[0] = \h11 /\ registers[1] = \h22 /\ registers[2] = \h33
    /\ registers[15] = \h44 /\ registers[3] = 0


(* ------------------------------------------------------------------ *)
(* Display cells                                                        *)
(* ------------------------------------------------------------------ *)
\* C19: in every reachable state every cell of the 32x64 display holds 0 or
\* 1, so the host's test "cell > 0" is the test "pixel bit is 1".
C19_DisplayCellsAreBits ==
    \A r \in Rows : \A c \in Cols :
        /\ display[r][c] \in {0, 1}
        /\ display[r][c] > 0 <=> display[r][c] % 2 = 1

\* the sprite FF drawn at (63, 31) and again at (0, 31), over seven of its
\* own pixels: those are off again, columns 63 and 7 are lit, VF = 1
C19_Witness ==
    /\ last.op = "execute_opcode" /\ panic = "none"
    /\ last.exec.opcode = \hDF11 /\ last.prev.opcode = \hDF11
    /\ registers[15] = 1
    /\ display[31][63] = 1 /\ display[31][7] = 1
    /\ \A c \in 0 .. 6 : display[31][c] = 0


(* ------------------------------------------------------------------ *)
(* Waiting for a key                                                    *)
(* ------------------------------------------------------------------ *)
WaitingInBounds == waiting_key_opcode # 0 /\ pc + 1 < 4096

\* C20: while waiting for a key (waiting_key_opcode # 0, pc + 1 < 4096) with
\* no key pressed, execute_opcode changes nothing: memory, registers, index
\* register, pc, stack, display, timers and waiting_key_opcode stay; during
\* the wait update_timers changes the timers only, a key write the keys
\* only, and restart returns the machine to Running at pc = 0x200.
C20_WaitIsNoOp ==
    [][/\ (WaitingInBounds /\ PressedKeys = {} /\ ExecuteOpcode)
            => (UNCHANGED chip8 /\ panic' = "none")
       /\ (WaitingInBounds /\ UpdateTimers)
            => UNCHANGED <<memory, registers, i_register, pc, stack, display,
                           keys, waiting_key_opcode, panic>>
       /\ (WaitingInBounds /\ waiting_key_opcode' # 0 /\ UpdateKeys(KeySets))
            => UNCHANGED <<memory, registers, i_register, pc, stack, display,
                           delay_timer, sound_timer, waiting_key_opcode, panic>>
       /\ (WaitingInBounds /\ Restart)
            => (waiting_key_opcode' = 0 /\ pc' = 512 /\ memory' = memory)]_vars

\* F30A at 0x200 has been re-executed with no key down: still waiting for
\* V3 at pc = 0x202, nothing moved
C20_Witness ==
    /\ panic = "none" /\ last.op = "execute_opcode"
    /\ last.exec.opcode = \hF30A /\ last.exec.reused /\ last.exec.keys = {}
    /\ last.prev.opcode = \hF30A
    /\ waiting_key_opcode = \hF30A /\ pc = 514
    /\ registers = ZeroRegs /\ stack = << >>

====
